---- MODULE Spec2Model ----
(***************************************************************************)
(* Model of app.py (Codeforces statistics backend).                        *)
(*                                                                         *)
(* Python values are represented as follows.                               *)
(*   - An optional value (the result of dict.get, or a variable that may   *)
(*     hold None) is a record [isNone, v]; v is a default of the value's   *)
(*     type when isNone is TRUE.                                           *)
(*   - A str that the code inspects character by character (lower(), the   *)
(*     "in" substring test) is a sequence of one-character strings.        *)
(*   - A Counter / dict is a function whose DOMAIN is the set of keys.     *)
(*   - round(x, 2) results are kept in hundredths, as integers.            *)
(***************************************************************************)
EXTENDS Integers, Sequences, FiniteSets, TLC

VARIABLES
    \* calculate_stats: argument and returned record
    submissions, stats,
    \* analyze_contests: argument and returned record
    rating_changes, contest_stats,
    \* get_user_global_country_rank: arguments and returned record
    user_info, rated_users, rank_stats,
    \* the Flask process: module-level cache, the clock, the handler
    cache, now, pc, locals, fetched, lastFetch, lastGood, invoked, response

vars == <<submissions, stats, rating_changes, contest_stats,
          user_info, rated_users, rank_stats,
          cache, now, pc, locals, fetched, lastFetch, lastGood, invoked,
          response>>

statsVars == <<submissions, stats>>
contestVars == <<rating_changes, contest_stats>>
rankVars == <<user_info, rated_users, rank_stats>>
serverVars == <<cache, now, pc, locals, fetched, lastFetch, lastGood,
                invoked, response>>
pureVars == <<statsVars, contestVars, rankVars>>

-----------------------------------------------------------------------------
(* Bounds of the model *)

MaxSubs == 3
MaxContests == 2
MaxUsers == 3
MaxTicks == 4

-----------------------------------------------------------------------------
(* Python helpers *)

NoneInt == [isNone |-> TRUE, v |-> 0]
NoneStr == [isNone |-> TRUE, v |-> ""]
NoneSeq == [isNone |-> TRUE, v |-> <<>>]
Some(x) == [isNone |-> FALSE, v |-> x]

EmptyDict == [k \in {} |-> 0]

\* Counter: c[k] += 1
Inc(c, k) ==
    IF k \in DOMAIN c THEN [c EXCEPT ![k] = @ + 1] ELSE c @@ (k :> 1)

\* truth value of an optional int: None and 0 are false
TruthyInt(o) == ~o.isNone /\ o.v # 0

\* truth value of an optional str: None and "" are false
TruthyStr(o) == ~o.isNone /\ o.v # ""

\* truth value of an optional list: None and [] are false
TruthyList(o) == ~o.isNone /\ Len(o.v) > 0

\* max(a, b)
PyMax(a, b) == IF a >= b THEN a ELSE b

SetMin(S) == CHOOSE x \in S : \A y \in S : x <= y
SetMax(S) == CHOOSE x \in S : \A y \in S : x >= y

\* round(num / den, 0) for num >= 0, den > 0: Python rounds halves to even
RoundHalfEven(num, den) ==
    LET q == num \div den
        r == num % den
    IN  IF 2 * r < den THEN q
        ELSE IF 2 * r > den THEN q + 1
        ELSE IF q % 2 = 0 THEN q ELSE q + 1

-----------------------------------------------------------------------------
(* calculate_stats *)

\* problem.get('contestId'), problem.get('index')
ProblemId(problem) == <<problem.contestId, problem.index>>

\* sub.get('verdict', 'UNKNOWN')
VerdictOf(sub) == IF sub.verdict.isNone THEN "UNKNOWN" ELSE sub.verdict.v

\* problem.get('tags', [])
TagsOf(problem) == IF problem.tags.isNone THEN <<>> ELSE problem.tags.v

StatsInitial ==
    [accepted_count |-> 0,
     wrong_answer_count |-> 0,
     verdict_counter |-> EmptyDict,
     attempted_problems |-> {},
     solved_problems |-> {},
     first_attempt_solved |-> {},
     problem_first_submission |-> EmptyDict,
     contests_participated |-> {},
     difficulty_solved |-> EmptyDict,
     topic_solved |-> EmptyDict]

\* attempted_problems.add(problem_id); contests_participated.add(contest_id)
AddAttempted_OnlyFailed(acc, problem_id, contest_id, verdict) ==
    IF verdict = "OK" THEN acc
    ELSE [acc EXCEPT !.attempted_problems = @ \cup {problem_id},
                     !.contests_participated = @ \cup {contest_id}]

AddAttempted(acc, problem_id, contest_id, verdict) ==
    [acc EXCEPT !.attempted_problems = @ \cup {problem_id},
                !.contests_participated = @ \cup {contest_id}]

\* the first-submission bookkeeping of both branches
RecordFirst_AnyOK(acc, problem_id, verdict) ==
    IF verdict = "OK"
    THEN [acc EXCEPT !.problem_first_submission =
                         IF problem_id \in DOMAIN @ THEN @
                         ELSE @ @@ (problem_id :> verdict),
                     !.first_attempt_solved = @ \cup {problem_id}]
    ELSE acc

RecordFirst(acc, problem_id, verdict) ==
    IF problem_id \notin DOMAIN acc.problem_first_submission
    THEN [acc EXCEPT !.problem_first_submission = @ @@ (problem_id :> verdict),
                     !.first_attempt_solved =
                         IF verdict = "OK" THEN @ \cup {problem_id} ELSE @]
    ELSE acc

\* if rating: difficulty_solved[rating] += 1
AddDifficulty(acc, rating) ==
    IF TruthyInt(rating)
    THEN [acc EXCEPT !.difficulty_solved = Inc(@, rating.v)]
    ELSE acc

\* for tag in tags: topic_solved[tag] += 1
RECURSIVE AddTopics(_, _, _)
AddTopics(acc, tags, i) ==
    IF i > Len(tags) THEN acc
    ELSE AddTopics([acc EXCEPT !.topic_solved = Inc(@, tags[i])], tags, i + 1)

\* one iteration of the first loop
StatsLoopBody(acc, sub) ==
    LET problem == sub.problem
        contest_id == problem.contestId
        problem_id == ProblemId(problem)
        verdict == VerdictOf(sub)
        a1 == AddAttempted(acc, problem_id, contest_id, verdict)
        a2 == [a1 EXCEPT !.verdict_counter = Inc(@, verdict)]
    IN  IF verdict = "OK"
        THEN LET a3 == [a2 EXCEPT !.accepted_count = @ + 1,
                                  !.solved_problems = @ \cup {problem_id}]
                 a4 == RecordFirst(a3, problem_id, verdict)
                 a5 == AddDifficulty(a4, problem.rating)
             IN  AddTopics(a5, TagsOf(problem), 1)
        ELSE LET a3 == IF verdict = "WRONG_ANSWER"
                       THEN [a2 EXCEPT !.wrong_answer_count = @ + 1]
                       ELSE a2
             IN  RecordFirst(a3, problem_id, verdict)

RECURSIVE StatsLoop(_, _, _)
StatsLoop(acc, subs, i) ==
    IF i > Len(subs) THEN acc
    ELSE StatsLoop(StatsLoopBody(acc, subs[i]), subs, i + 1)

\* the second loop: problem_attempts[pid] += 1
RECURSIVE AttemptsLoop(_, _, _)
AttemptsLoop(problem_attempts, subs, i) ==
    IF i > Len(subs) THEN problem_attempts
    ELSE AttemptsLoop(Inc(problem_attempts, ProblemId(subs[i].problem)),
                      subs, i + 1)

\* round((unique_solved / unique_attempted) * 100, 2) if unique_attempted
\* else 0.0, in hundredths
SolvingRate(unique_solved, unique_attempted) ==
    IF unique_attempted # 0
    THEN RoundHalfEven(unique_solved * 10000, unique_attempted)
    ELSE 0

\* The returned dict.  outcome is "returned" on every path: the function has
\* no raise statement and every key access on a submission's problem is a
\* .get.  The three sets are the locals the counts are taken from.
calculate_stats(subs) ==
    LET acc == StatsLoop(StatsInitial, subs, 1)
        unique_attempted == Cardinality(acc.attempted_problems)
        unique_solved == Cardinality(acc.solved_problems)
        problem_attempts == AttemptsLoop(EmptyDict, subs, 1)
        max_attempts ==
            IF DOMAIN problem_attempts # {}
            THEN SetMax({problem_attempts[p] : p \in DOMAIN problem_attempts})
            ELSE 0
    IN  [outcome |-> "returned",
         total_submissions |-> Len(subs),
         accepted_count |-> acc.accepted_count,
         wrong_answer_count |-> acc.wrong_answer_count,
         unique_attempted |-> unique_attempted,
         unique_solved |-> unique_solved,
         problem_solving_rate |-> SolvingRate(unique_solved, unique_attempted),
         contests_participated |-> Cardinality(acc.contests_participated),
         first_attempt_solved |-> Cardinality(acc.first_attempt_solved),
         verdict_counter |-> acc.verdict_counter,
         max_attempts |-> max_attempts,
         difficulty_solved |-> acc.difficulty_solved,
         topic_solved |-> acc.topic_solved,
         attempted_problems |-> acc.attempted_problems,
         solved_problems |-> acc.solved_problems,
         problem_attempts |-> problem_attempts]

\* the value of stats before calculate_stats has been called
NotCalled == [outcome |-> "not_called"]

(* Inputs of calculate_stats *)

Problem(cid, idx, rating, tags) ==
    [contestId |-> cid, index |-> idx, rating |-> rating, tags |-> tags]

ProblemPool ==
    { Problem(Some(1), Some("A"), Some(800), Some(<<"dp", "math">>)),
      Problem(Some(1), Some("B"), Some(0), Some(<<"dp">>)),
      Problem(Some(2), Some("A"), NoneInt, NoneSeq),
      Problem(NoneInt, Some("A"), Some(800), Some(<<"math">>)),
      Problem(Some(2), NoneStr, Some(1500), Some(<<"dp", "dp">>)) }

VerdictPool == { Some("OK"), Some("WRONG_ANSWER"), NoneStr }

SubmissionPool == [problem : ProblemPool, verdict : VerdictPool]

SeqsUpTo(S, n) == UNION { [1..k -> S] : k \in 0..n }

CallCalculateStats ==
    /\ stats = NotCalled
    /\ stats' = calculate_stats(submissions)
    /\ UNCHANGED <<submissions, contestVars, rankVars, serverVars>>

-----------------------------------------------------------------------------
(* analyze_contests *)

Div1 == <<"D", "i", "v", ".", " ", "1">>
Div2 == <<"D", "i", "v", ".", " ", "2">>
Div3 == <<"D", "i", "v", ".", " ", "3">>

\* pat in s, on str
Contains(s, pat) ==
    \E i \in 1..(Len(s) - Len(pat) + 1) :
        SubSeq(s, i, i + Len(pat) - 1) = pat

\* the if / elif chain on contest_name
Division_Div2First(contest_name) ==
    IF Contains(contest_name, Div2) THEN "Div. 2"
    ELSE IF Contains(contest_name, Div1) THEN "Div. 1"
    ELSE IF Contains(contest_name, Div3) THEN "Div. 3"
    ELSE "Other"

Division(contest_name) ==
    IF Contains(contest_name, Div1) THEN "Div. 1"
    ELSE IF Contains(contest_name, Div2) THEN "Div. 2"
    ELSE IF Contains(contest_name, Div3) THEN "Div. 3"
    ELSE "Other"

ContestInitial ==
    [best_rank_by_division |-> EmptyDict,
     highest_rating |-> 0,
     best_rank_overall |-> NoneInt]

\* highest_rating = max(highest_rating, new_rating)
HighestStep(highest_rating, new_rating) == PyMax(highest_rating, new_rating)

\* if division not in best_rank_by_division or rank < ...[division]
BestByDivisionStep(best, division, rank) ==
    IF division \notin DOMAIN best THEN best @@ (division :> rank)
    ELSE IF rank < best[division] THEN [best EXCEPT ![division] = rank]
    ELSE best

\* if best_rank_overall is None or rank < best_rank_overall
BestOverallStep(best_rank_overall, rank) ==
    IF best_rank_overall.isNone \/ rank < best_rank_overall.v
    THEN Some(rank)
    ELSE best_rank_overall

\* one iteration of the loop
ContestLoopBody(acc, entry) ==
    LET contest_name == entry.contestName
        rank == entry.rank
        new_rating == entry.newRating
        division == Division(contest_name)
    IN  [best_rank_by_division |->
             BestByDivisionStep(acc.best_rank_by_division, division, rank),
         highest_rating |-> HighestStep(acc.highest_rating, new_rating),
         best_rank_overall |-> BestOverallStep(acc.best_rank_overall, rank)]

RECURSIVE ContestLoop(_, _, _)
ContestLoop(acc, entries, i) ==
    IF i > Len(entries) THEN acc
    ELSE ContestLoop(ContestLoopBody(acc, entries[i]), entries, i + 1)

analyze_contests(entries) ==
    LET acc == ContestLoop(ContestInitial, entries, 1)
    IN  [outcome |-> "returned",
         total_contests |-> Len(entries),
         contests_skipped |-> "Not Available",
         best_rank_by_division |-> acc.best_rank_by_division,
         highest_rating |-> acc.highest_rating,
         best_rank_overall |-> acc.best_rank_overall]

(* Inputs of analyze_contests *)

NameDiv1 == Div1
NameDiv2Round == Div2 \o <<" ", "R">>
NameDiv1vsDiv2 == Div1 \o <<" ", "v", "s", " ">> \o Div2
NameDiv2andDiv1 == Div2 \o <<"+">> \o Div1
NameDiv3 == <<"#">> \o Div3
NameEdu == <<"E", "d", "u">>
NameNoSpace == <<"D", "i", "v", ".", "1">>

ContestNamePool ==
    { NameDiv1, NameDiv2Round, NameDiv1vsDiv2, NameDiv2andDiv1, NameDiv3,
      NameEdu, NameNoSpace }

RankPool == { 1, 200, 500 }
NewRatingPool == { -5, 0, 1400, 1500 }

RatingChangePool ==
    [contestName : ContestNamePool, rank : RankPool, newRating : NewRatingPool]

CallAnalyzeContests ==
    /\ contest_stats = NotCalled
    /\ contest_stats' = analyze_contests(rating_changes)
    /\ UNCHANGED <<rating_changes, statsVars, rankVars, serverVars>>

-----------------------------------------------------------------------------
(* get_user_global_country_rank *)

\* str.lower() on the letters the handles are written in
LowerChar(c) ==
    IF c = "A" THEN "a" ELSE IF c = "B" THEN "b" ELSE c

Lower(s) == [i \in 1..Len(s) |-> LowerChar(s[i])]

\* global_rank = i + 1, for the index i of enumerate()
RankOfIndex_ZeroBased(i) == i

RankOfIndex(i) == i + 1

\* for i, u in enumerate(users): if u['handle'].lower() == handle.lower():
\*     rank = i + 1; break                      (i counts from 0)
RECURSIVE ScanRank(_, _, _)
ScanRank(users, handle, i) ==
    IF i >= Len(users) THEN NoneInt
    ELSE IF Lower(users[i + 1].handle) = Lower(handle)
         THEN Some(RankOfIndex(i))
         ELSE ScanRank(users, handle, i + 1)

\* [u for u in rated_users if u.get("country") == country]
CountryUsers(users, country) ==
    SelectSeq(users, LAMBDA u : u.country = country)

\* round(100 * (1 - (rank - 1) / total), 2) if rank else None, in
\* hundredths; the division raises ZeroDivisionError when total is 0
Percentile(rank, total) ==
    IF ~TruthyInt(rank) THEN [raised |-> FALSE, value |-> NoneInt]
    ELSE IF total = 0 THEN [raised |-> TRUE, value |-> NoneInt]
    ELSE [raised |-> FALSE,
          value |-> Some(RoundHalfEven(10000 * (total - (rank.v - 1)), total))]

get_user_global_country_rank(info, users) ==
    LET country == info.country
        handle == info.handle
        total_users == Len(users)
        country_users == CountryUsers(users, country)
        global_rank == ScanRank(users, handle, 0)
        country_rank == ScanRank(country_users, handle, 0)
        global_percentile == Percentile(global_rank, total_users)
        country_percentile == Percentile(country_rank, Len(country_users))
    IN  IF global_percentile.raised \/ country_percentile.raised
        THEN [outcome |-> "raised", exception |-> "ZeroDivisionError"]
        ELSE [outcome |-> "returned",
              global_rank |-> global_rank,
              global_percentile |-> global_percentile.value,
              country_rank |-> country_rank,
              country_percentile |-> country_percentile.value,
              country |-> country]

(* Inputs of get_user_global_country_rank *)

HandlePool == { <<"a", "b">>, <<"A", "b">>, <<"A", "B">>, <<"b">> }
CountryPool == { NoneStr, Some("BD"), Some("US") }

UserPool == [handle : HandlePool, country : CountryPool]

CallGetRank ==
    /\ rank_stats = NotCalled
    /\ rank_stats' = get_user_global_country_rank(user_info, rated_users)
    /\ UNCHANGED <<user_info, rated_users, statsVars, contestVars, serverVars>>

-----------------------------------------------------------------------------
(* cached_fetch and the cache *)

\* def cached_fetch(url, expiry=60)
Expiry == 60

\* the four fetch_* helpers and the URL each one builds
Endpoints == { "user.info", "user.status", "user.rating", "user.ratedList" }

Url(endpoint, handle) ==
    IF endpoint = "user.ratedList" THEN <<endpoint, "activeOnly=true">>
    ELSE <<endpoint, handle>>

\* if now - timestamp < expiry
CacheFresh_Inclusive(t, timestamp, expiry) == t - timestamp <= expiry

CacheFresh(t, timestamp, expiry) == t - timestamp < expiry

\* cache[url] = (data['result'], now)
CachePut(c, url, result, t) ==
    [u \in DOMAIN c \cup {url} |->
        IF u = url THEN [data |-> result, timestamp |-> t] ELSE c[u]]

\* What one call does, given the upstream's answer resp to requests.get
\* (read only when the request is made).  resp.status is "OK", "FAILED"
\* (a JSON body whose status is not OK) or "EXC" (requests.get,
\* raise_for_status or json raised).
cached_fetch(c, t, url, resp) ==
    IF url \in DOMAIN c /\ CacheFresh(t, c[url].timestamp, Expiry)
    THEN [cache |-> c, hit |-> TRUE, status |-> "-",
          data |-> Some(c[url].data), err |-> NoneStr]
    ELSE IF resp.status = "EXC"
    THEN [cache |-> c, hit |-> FALSE, status |-> resp.status,
          data |-> NoneSeq, err |-> Some(resp.exc)]
    ELSE IF resp.status # "OK"
    THEN [cache |-> c, hit |-> FALSE, status |-> resp.status,
          data |-> NoneSeq,
          err |-> IF resp.comment.isNone THEN Some("API error")
                  ELSE resp.comment]
    ELSE [cache |-> CachePut(c, url, resp.result, t), hit |-> FALSE,
          status |-> resp.status,
          data |-> Some(resp.result), err |-> NoneStr]

(* What the upstream API can answer *)

InfoA == [handle |-> <<"a", "b">>, country |-> Some("BD")]

SubOk ==
    [problem |-> Problem(Some(1), Some("A"), Some(800), Some(<<"dp">>)),
     verdict |-> Some("OK")]

ChangeA == [contestName |-> NameDiv2Round, rank |-> 200, newRating |-> 1500]

RatedA == [handle |-> <<"A", "B">>, country |-> Some("BD")]
RatedB == [handle |-> <<"b">>, country |-> Some("US")]

ResultPool(endpoint) ==
    IF endpoint = "user.info" THEN { <<>>, <<InfoA>> }
    ELSE IF endpoint = "user.status" THEN { <<>>, <<SubOk>> }
    ELSE IF endpoint = "user.rating" THEN { <<>>, <<ChangeA>> }
    ELSE { <<>>, <<RatedB, RatedA>> }

CommentPool == { NoneStr, Some(""), Some("handle: not found") }

Responses(endpoint) ==
    { [status |-> "OK", result |-> r, comment |-> NoneStr, exc |-> ""] :
        r \in ResultPool(endpoint) }
    \cup
    { [status |-> "FAILED", result |-> <<>>, comment |-> c, exc |-> ""] :
        c \in CommentPool }
    \cup
    { [status |-> "EXC", result |-> <<>>, comment |-> NoneStr,
       exc |-> "timed out"] }

-----------------------------------------------------------------------------
(* get_stats *)

\* len(x) of the first line of each aggregator raises TypeError on None
Raised(exception) == [outcome |-> "raised", exception |-> exception]

CallStats(subs) ==
    IF subs.isNone THEN Raised("TypeError") ELSE calculate_stats(subs.v)

CallContests(entries) ==
    IF entries.isNone THEN Raised("TypeError") ELSE analyze_contests(entries.v)

CallRank(info, users) ==
    IF users.isNone THEN Raised("TypeError")
    ELSE get_user_global_country_rank(info, users.v)

NoInfo == [handle |-> <<>>, country |-> NoneStr]

NoLocals ==
    [handle |-> "", user_info |-> NoInfo, submissions |-> NoneSeq,
     rating_changes |-> NoneSeq]

NoReport ==
    [stats |-> NotCalled, contest_stats |-> NotCalled, rank_stats |-> NotCalled]

NoResponse == [kind |-> "none", code |-> 0, error |-> <<>>, report |-> NoReport]

\* jsonify({"error": f"<what>: {err}"}), 400
ErrorResponse(what, err) ==
    [kind |-> "error", code |-> 400, error |-> <<what, err>>,
     report |-> NoReport]

\* an exception that leaves the view function: Flask answers 500
ExceptionResponse(exception) ==
    [kind |-> "exception", code |-> 500, error |-> <<exception>>,
     report |-> NoReport]

\* jsonify(result); the user_info block of the result is a projection of
\* the user record and is not kept here
ReportResponse(s, c, r) ==
    [kind |-> "report", code |-> 200, error |-> <<>>,
     report |-> [stats |-> s, contest_stats |-> c, rank_stats |-> r]]

NotFetched == [src |-> "-", data |-> NoneSeq]

\* the bookkeeping of one cached_fetch call: the cache, the call's trace
\* (which log line it wrote, what it returned) and the upstream's last good
\* answer per URL
FetchEffects(endpoint, url, resp, r) ==
    /\ cache' = r.cache
    /\ lastFetch' = [url |-> url, hit |-> r.hit, status |-> r.status,
                     data |-> r.data, err |-> r.err]
    /\ lastGood' = IF ~r.hit /\ resp.status = "OK"
                   THEN [u \in DOMAIN lastGood \cup {url} |->
                            IF u = url THEN resp.result ELSE lastGood[u]]
                   ELSE lastGood
    /\ fetched' = [fetched EXCEPT ![endpoint] =
                      [src |-> IF r.hit THEN "hit"
                               ELSE IF resp.status = "OK" THEN "fresh"
                               ELSE "failed",
                       data |-> r.data]]

Finish(resp) ==
    /\ response' = resp
    /\ pc' = "idle"
    /\ locals' = NoLocals

\* handle = request.args.get('handle'); if not handle: 400
StartRequest ==
    /\ pc = "idle"
    /\ \E handle \in { NoneStr, Some(""), Some("tourist") } :
        /\ fetched' = [e \in Endpoints |-> NotFetched]
        /\ invoked' = {}
        /\ IF ~TruthyStr(handle)
           THEN /\ response' = ErrorResponse("No handle provided", "")
                /\ UNCHANGED <<pc, locals>>
           ELSE /\ response' = NoResponse
                /\ pc' = "fetch_user_info"
                /\ locals' = [NoLocals EXCEPT !.handle = handle.v]
    /\ UNCHANGED <<cache, now, lastFetch, lastGood, pureVars>>

\* user_info_list, err = fetch_user_info(handle)
FetchUserInfo ==
    /\ pc = "fetch_user_info"
    /\ \E resp \in Responses("user.info") :
        LET url == Url("user.info", locals.handle)
            r == cached_fetch(cache, now, url, resp)
        IN  /\ FetchEffects("user.info", url, resp, r)
            /\ IF TruthyStr(r.err) \/ ~TruthyList(r.data)
               THEN Finish(ErrorResponse("User info error",
                               IF TruthyStr(r.err) THEN r.err.v
                               ELSE "No user found"))
               ELSE /\ locals' = [locals EXCEPT !.user_info = r.data.v[1]]
                    /\ pc' = "fetch_submissions"
                    /\ UNCHANGED response
    /\ UNCHANGED <<now, invoked, pureVars>>

\* submissions, err = fetch_user_submissions(handle)
FetchSubmissions ==
    /\ pc = "fetch_submissions"
    /\ \E resp \in Responses("user.status") :
        LET url == Url("user.status", locals.handle)
            r == cached_fetch(cache, now, url, resp)
        IN  /\ FetchEffects("user.status", url, resp, r)
            /\ IF TruthyStr(r.err)
               THEN Finish(ErrorResponse("Submissions error", r.err.v))
               ELSE /\ locals' = [locals EXCEPT !.submissions = r.data]
                    /\ pc' = "fetch_rating"
                    /\ UNCHANGED response
    /\ UNCHANGED <<now, invoked, pureVars>>

\* rating_changes, err = fetch_user_rating(handle)
FetchRating ==
    /\ pc = "fetch_rating"
    /\ \E resp \in Responses("user.rating") :
        LET url == Url("user.rating", locals.handle)
            r == cached_fetch(cache, now, url, resp)
        IN  /\ FetchEffects("user.rating", url, resp, r)
            /\ IF TruthyStr(r.err)
               THEN Finish(ErrorResponse("User rating error", r.err.v))
               ELSE /\ locals' = [locals EXCEPT !.rating_changes = r.data]
                    /\ pc' = "fetch_rated"
                    /\ UNCHANGED response
    /\ UNCHANGED <<now, invoked, pureVars>>

\* rated_users, err = fetch_rated_users(); if err: rated_users = []
RatedUsersOrEmpty(r) == IF TruthyStr(r.err) THEN Some(<<>>) ELSE r.data

\* the three aggregator calls, in order; the first that raises ends the view
Aggregate(subs, entries, info, users) ==
    LET s == CallStats(subs)
        c == CallContests(entries)
        k == CallRank(info, users)
    IN  IF s.outcome = "raised"
        THEN [invoked |-> {"calculate_stats"},
              response |-> ExceptionResponse(s.exception)]
        ELSE IF c.outcome = "raised"
        THEN [invoked |-> {"calculate_stats", "analyze_contests"},
              response |-> ExceptionResponse(c.exception)]
        ELSE IF k.outcome = "raised"
        THEN [invoked |-> {"calculate_stats", "analyze_contests",
                           "get_user_global_country_rank"},
              response |-> ExceptionResponse(k.exception)]
        ELSE [invoked |-> {"calculate_stats", "analyze_contests",
                           "get_user_global_country_rank"},
              response |-> ReportResponse(s, c, k)]

\* rated_users, err = fetch_rated_users() and the rest of the view
FetchRatedAndReport ==
    /\ pc = "fetch_rated"
    /\ \E resp \in Responses("user.ratedList") :
        LET url == Url("user.ratedList", locals.handle)
            r == cached_fetch(cache, now, url, resp)
            a == Aggregate(locals.submissions, locals.rating_changes,
                           locals.user_info, RatedUsersOrEmpty(r))
        IN  /\ FetchEffects("user.ratedList", url, resp, r)
            /\ invoked' = a.invoked
            /\ Finish(a.response)
    /\ UNCHANGED <<now, pureVars>>

\* time.time() advances between any two steps; half an expiry per unit gives
\* cache entries aged below, exactly at and beyond expiry
Tick ==
    /\ \E d \in { Expiry \div 2, Expiry } :
        /\ now + d <= MaxTicks * (Expiry \div 2)
        /\ now' = now + d
    /\ UNCHANGED <<cache, pc, locals, fetched, lastFetch, lastGood, invoked,
                   response, pureVars>>

NoFetch ==
    [url |-> <<"", "">>, hit |-> FALSE, status |-> "-", data |-> NoneSeq,
     err |-> NoneStr]

-----------------------------------------------------------------------------
(* Specifications: one per entry point.  Each starts the variables of the  *)
(* other entry points at their idle values and leaves them alone.          *)

StatsInit ==
    /\ submissions \in SeqsUpTo(SubmissionPool, MaxSubs)
    /\ stats = NotCalled
    /\ rating_changes = <<>> /\ contest_stats = NotCalled
    /\ user_info = NoInfo /\ rated_users = <<>> /\ rank_stats = NotCalled
    /\ cache = EmptyDict /\ now = 0 /\ pc = "idle" /\ locals = NoLocals
    /\ fetched = [e \in Endpoints |-> NotFetched] /\ lastFetch = NoFetch
    /\ lastGood = EmptyDict /\ invoked = {} /\ response = NoResponse

StatsNext == CallCalculateStats

SpecStats == StatsInit /\ [][StatsNext]_vars

ContestInit ==
    /\ rating_changes \in SeqsUpTo(RatingChangePool, MaxContests)
    /\ contest_stats = NotCalled
    /\ submissions = <<>> /\ stats = NotCalled
    /\ user_info = NoInfo /\ rated_users = <<>> /\ rank_stats = NotCalled
    /\ cache = EmptyDict /\ now = 0 /\ pc = "idle" /\ locals = NoLocals
    /\ fetched = [e \in Endpoints |-> NotFetched] /\ lastFetch = NoFetch
    /\ lastGood = EmptyDict /\ invoked = {} /\ response = NoResponse

ContestNext == CallAnalyzeContests

SpecContests == ContestInit /\ [][ContestNext]_vars

RankInit ==
    /\ user_info \in UserPool
    /\ rated_users \in SeqsUpTo(UserPool, MaxUsers)
    /\ rank_stats = NotCalled
    /\ submissions = <<>> /\ stats = NotCalled
    /\ rating_changes = <<>> /\ contest_stats = NotCalled
    /\ cache = EmptyDict /\ now = 0 /\ pc = "idle" /\ locals = NoLocals
    /\ fetched = [e \in Endpoints |-> NotFetched] /\ lastFetch = NoFetch
    /\ lastGood = EmptyDict /\ invoked = {} /\ response = NoResponse

RankNext == CallGetRank

SpecRank == RankInit /\ [][RankNext]_vars

\* the process after import: an empty cache and no request in progress
ServerInit ==
    /\ cache = EmptyDict /\ now = 0 /\ pc = "idle" /\ locals = NoLocals
    /\ fetched = [e \in Endpoints |-> NotFetched] /\ lastFetch = NoFetch
    /\ lastGood = EmptyDict /\ invoked = {} /\ response = NoResponse
    /\ submissions = <<>> /\ stats = NotCalled
    /\ rating_changes = <<>> /\ contest_stats = NotCalled
    /\ user_info = NoInfo /\ rated_users = <<>> /\ rank_stats = NotCalled

ServerNext ==
    \/ StartRequest
    \/ FetchUserInfo
    \/ FetchSubmissions
    \/ FetchRating
    \/ FetchRatedAndReport
    \/ Tick

SpecServer == ServerInit /\ [][ServerNext]_vars

-----------------------------------------------------------------------------
(* Properties of calculate_stats, stated on its argument and its result    *)
(* (specification SpecStats)                                               *)

StatsReturned == stats.outcome = "returned"

SubIndexes == 1..Len(submissions)

PidAt(i) == <<submissions[i].problem.contestId, submissions[i].problem.index>>

IsOkAt(i) == submissions[i].verdict = Some("OK")

Malformed(i) ==
    submissions[i].problem.contestId.isNone \/ submissions[i].problem.index.isNone

SubmittedPids == { PidAt(i) : i \in SubIndexes }

FirstIndexOf(p) == SetMin({ i \in SubIndexes : PidAt(i) = p })

PidsWithOk == { p \in SubmittedPids : \E i \in SubIndexes : PidAt(i) = p /\ IsOkAt(i) }

PidsFirstOk == { p \in SubmittedPids : IsOkAt(FirstIndexOf(p)) }

CounterAt(c, k) == IF k \in DOMAIN c THEN c[k] ELSE 0

RECURSIVE SumOver(_, _)
SumOver(c, keys) ==
    IF keys = {} THEN 0
    ELSE LET k == CHOOSE x \in keys : TRUE
         IN  c[k] + SumOver(c, keys \ {k})

\* C1: whenever the submission list holds a submission whose problem lacks
\* contestId or index, calculate_stats ends in a validation error, returns
\* no statistics record, and no ProblemID with a missing component is used
\* as a key.
C1_FailsFastOnMalformed ==
    /\ (stats.outcome # "not_called" /\ \E i \in SubIndexes : Malformed(i))
           => stats.outcome = "validation_error"
    /\ StatsReturned =>
           \A p \in stats.attempted_problems : ~p[1].isNone /\ ~p[2].isNone

\* C4: first_attempt_solved is the number of distinct ProblemIDs whose first
\* submission in input order has verdict OK, and it never exceeds
\* unique_solved.
C4_FirstAttemptSolved ==
    StatsReturned =>
        /\ stats.first_attempt_solved = Cardinality(PidsFirstOk)
        /\ stats.first_attempt_solved <= stats.unique_solved

\* a call where one problem was solved only on a later attempt and another
\* on its first
C4_Witness ==
    /\ StatsReturned
    /\ \E p \in PidsWithOk : ~IsOkAt(FirstIndexOf(p))
    /\ PidsFirstOk # {}

\* C6: the solved ProblemIDs are a subset of the attempted ones, unique_solved
\* counts the distinct ProblemIDs with at least one OK submission, the solving
\* rate lies in [0, 100] and is exactly 0.0 when nothing was attempted.
C6_SolvedWithinAttempted ==
    StatsReturned =>
        /\ stats.solved_problems \subseteq stats.attempted_problems
        /\ stats.unique_solved <= stats.unique_attempted
        /\ stats.unique_solved = Cardinality(PidsWithOk)
        /\ stats.problem_solving_rate >= 0
        /\ stats.problem_solving_rate <= 100 * 100
        /\ (stats.unique_attempted = 0 => stats.problem_solving_rate = 0)

\* a call where some but not all of the attempted problems were solved
C6_Witness ==
    /\ StatsReturned
    /\ stats.unique_solved >= 1
    /\ stats.unique_solved < stats.unique_attempted
    /\ stats.problem_solving_rate > 0
    /\ stats.problem_solving_rate < 100 * 100

RatingValues ==
    { q.rating.v : q \in { x \in ProblemPool : ~x.rating.isNone } }

TagValues ==
    UNION { { TagsOf(q)[j] : j \in 1..Len(TagsOf(q)) } : q \in ProblemPool }

OkWithRating(r) ==
    { i \in SubIndexes : IsOkAt(i) /\ submissions[i].problem.rating = Some(r) }

OkTagOccurrences(t) ==
    { <<i, j>> \in SubIndexes \X (1..2) :
        /\ IsOkAt(i)
        /\ j <= Len(TagsOf(submissions[i].problem))
        /\ TagsOf(submissions[i].problem)[j] = t }

\* C9: difficulty_solved[r] is the number of OK submissions whose problem
\* carries rating r, for every rating a problem can carry, so the counts sum
\* to the number of OK submissions whose problem has a rating; topic_solved[t]
\* is the number of (OK submission, tag occurrence) pairs with tag t.
C9_AccumulatesPerAcceptedSubmission ==
    StatsReturned =>
        /\ \A r \in RatingValues :
               CounterAt(stats.difficulty_solved, r) = Cardinality(OkWithRating(r))
        /\ SumOver(stats.difficulty_solved, DOMAIN stats.difficulty_solved)
               = Cardinality({ i \in SubIndexes :
                                 IsOkAt(i) /\ ~submissions[i].problem.rating.isNone })
        /\ \A t \in TagValues :
               CounterAt(stats.topic_solved, t) = Cardinality(OkTagOccurrences(t))

-----------------------------------------------------------------------------
(* Properties of analyze_contests (specification SpecContests)             *)

ContestsReturned == contest_stats.outcome = "returned"

EntryIndexes == 1..Len(rating_changes)

\* C5: highest_rating is the maximum newRating over all entries when the
\* list is not empty, whatever the sign of the ratings, and 0 for the empty
\* list.
C5_HighestRatingIsMaximum ==
    ContestsReturned =>
        IF rating_changes = <<>>
        THEN contest_stats.highest_rating = 0
        ELSE contest_stats.highest_rating =
                 SetMax({ rating_changes[i].newRating : i \in EntryIndexes })

\* the division each contest name of the pool belongs to
ExpectedDivision ==
    (NameDiv1 :> "Div. 1") @@ (NameDiv2Round :> "Div. 2")
    @@ (NameDiv1vsDiv2 :> "Div. 1") @@ (NameDiv2andDiv1 :> "Div. 1")
    @@ (NameDiv3 :> "Div. 3") @@ (NameEdu :> "Other")
    @@ (NameNoSpace :> "Other")

DivisionAt(i) == ExpectedDivision[rating_changes[i].contestName]

Reordered(p) == [i \in EntryIndexes |-> rating_changes[p[i]]]

\* C7: every entry falls in exactly one division by first match (Div. 1,
\* then Div. 2, then Div. 3, else Other); best_rank_by_division has exactly
\* the divisions that occur, each with the minimum rank of its entries;
\* best_rank_overall is the minimum of those (undefined for the empty list);
\* and none of this depends on the order of the entries.
C7_BestRankByDivision ==
    ContestsReturned =>
        LET best == contest_stats.best_rank_by_division
        IN  /\ DOMAIN best = { DivisionAt(i) : i \in EntryIndexes }
            /\ \A d \in DOMAIN best :
                   best[d] = SetMin({ rating_changes[i].rank :
                                        i \in { j \in EntryIndexes : DivisionAt(j) = d } })
            /\ IF rating_changes = <<>>
               THEN contest_stats.best_rank_overall = NoneInt
               ELSE contest_stats.best_rank_overall =
                        Some(SetMin({ best[d] : d \in DOMAIN best }))
            /\ \A p \in Permutations(EntryIndexes) :
                   LET other == analyze_contests(Reordered(p))
                   IN  /\ other.best_rank_by_division = best
                       /\ other.best_rank_overall = contest_stats.best_rank_overall

\* a call with a contest whose name holds "Div. 2" before "Div. 1", followed
\* by a worse rank in the same division
C7_Witness ==
    /\ ContestsReturned
    /\ Len(rating_changes) = 2
    /\ rating_changes[1].contestName = NameDiv2andDiv1
    /\ rating_changes[2].contestName = NameDiv1
    /\ rating_changes[1].rank < rating_changes[2].rank
    /\ contest_stats.best_rank_by_division = ("Div. 1" :> rating_changes[1].rank)

-----------------------------------------------------------------------------
(* Properties of get_user_global_country_rank (specification SpecRank)     *)

SameLetter(a, b) ==
    \/ a = b
    \/ {a, b} = {"a", "A"}
    \/ {a, b} = {"b", "B"}

SameHandle(g, h) ==
    /\ Len(g) = Len(h)
    /\ \A i \in 1..Len(g) : SameLetter(g[i], h[i])

MatchingPositions ==
    { i \in 1..Len(rated_users) : SameHandle(rated_users[i].handle, user_info.handle) }

CountrySize ==
    Cardinality({ i \in 1..Len(rated_users) :
                    rated_users[i].country = user_info.country })

InPercent(o) == ~o.isNone /\ o.v >= 0 /\ o.v <= 100 * 100

\* C3: the call never raises; with no case-insensitive match of the handle
\* (the empty list included) the four rank and percentile outputs are
\* undefined; otherwise global_rank is the 1-based position of the first
\* match, within 1..total_users, with global_percentile in [0, 100]; and a
\* defined country_rank lies within 1..len(country_users) with
\* country_percentile in [0, 100].
C3_RankWellFormed ==
    rank_stats.outcome # "not_called" =>
        /\ rank_stats.outcome = "returned"
        /\ MatchingPositions = {} =>
               /\ rank_stats.global_rank = NoneInt
               /\ rank_stats.global_percentile = NoneInt
               /\ rank_stats.country_rank = NoneInt
               /\ rank_stats.country_percentile = NoneInt
        /\ MatchingPositions # {} =>
               /\ rank_stats.global_rank = Some(SetMin(MatchingPositions))
               /\ rank_stats.global_rank.v >= 1
               /\ rank_stats.global_rank.v <= Len(rated_users)
               /\ InPercent(rank_stats.global_percentile)
        /\ ~rank_stats.country_rank.isNone =>
               /\ rank_stats.country_rank.v >= 1
               /\ rank_stats.country_rank.v <= CountrySize
               /\ InPercent(rank_stats.country_percentile)

\* a call where the handle is found, in another letter case, below the top
\* of the list and at a better place within its country
C3_Witness ==
    /\ rank_stats.outcome = "returned"
    /\ ~rank_stats.global_rank.isNone
    /\ rank_stats.global_rank.v >= 2
    /\ rated_users[rank_stats.global_rank.v].handle # user_info.handle
    /\ ~rank_stats.country_rank.isNone
    /\ rank_stats.country_rank.v < rank_stats.global_rank.v

-----------------------------------------------------------------------------
(* Properties of get_stats and cached_fetch (specification SpecServer)     *)

\* a request that carried a handle has been answered
Answered ==
    /\ pc = "idle"
    /\ response.kind # "none"
    /\ fetched["user.info"].src # "-"

FetchFailed(e) == fetched[e].src = "failed"

InfoEmpty ==
    /\ fetched["user.info"].src \in { "hit", "fresh" }
    /\ ~TruthyList(fetched["user.info"].data)

ReportLevelFailure ==
    \/ FetchFailed("user.info")
    \/ InfoEmpty
    \/ FetchFailed("user.status")
    \/ FetchFailed("user.rating")

\* C2: when the user-info, submissions or rating-history fetch fails (or user
\* info is empty) the answer is a single error, with no report and no
\* aggregator invoked; when only the rated-users fetch fails the answer is a
\* complete report whose global and country rank and percentile are
\* undefined.
C2_FailuresShortCircuit ==
    Answered =>
        /\ ReportLevelFailure =>
               /\ response.kind = "error"
               /\ response.report = NoReport
               /\ invoked = {}
        /\ (~ReportLevelFailure /\ FetchFailed("user.ratedList")) =>
               /\ response.kind = "report"
               /\ response.report.rank_stats.outcome = "returned"
               /\ response.report.rank_stats.global_rank = NoneInt
               /\ response.report.rank_stats.global_percentile = NoneInt
               /\ response.report.rank_stats.country_rank = NoneInt
               /\ response.report.rank_stats.country_percentile = NoneInt

\* C8: the collections handed to the aggregators in one report computation
\* are complete and are never a mix of collections served from the cache of
\* an earlier request and collections fetched during this request.
C8_OnePointInTime ==
    response.kind = "report" =>
        /\ \A e \in Endpoints \ { "user.ratedList" } :
               fetched[e].src \in { "hit", "fresh" } /\ ~fetched[e].data.isNone
        /\ ~( /\ \E e \in Endpoints : fetched[e].src = "hit"
              /\ \E e \in Endpoints : fetched[e].src = "fresh" )

EndpointAt(p) ==
    IF p = "fetch_user_info" THEN "user.info"
    ELSE IF p = "fetch_submissions" THEN "user.status"
    ELSE IF p = "fetch_rating" THEN "user.rating"
    ELSE "user.ratedList"

\* every step of the handler past its start is one cached_fetch call
IsFetchStep == pc # "idle" /\ pc' # pc

CacheStep ==
    /\ IsFetchStep =>
        LET u == Url(EndpointAt(pc), locals.handle)
            f == lastFetch'
        IN  /\ f.url = u
            /\ f.hit =>
                   /\ u \in DOMAIN cache
                   /\ now - cache[u].timestamp < Expiry
                   /\ f.data = Some(cache[u].data)
                   /\ u \in DOMAIN lastGood
                   /\ cache[u].data = lastGood[u]
                   /\ f.err = NoneStr
                   /\ cache' = cache
            /\ (~f.hit /\ f.status # "OK") =>
                   /\ f.data = NoneSeq
                   /\ ~f.err.isNone
                   /\ cache' = cache
            /\ (~f.hit /\ f.status = "OK") =>
                   /\ DOMAIN cache' = DOMAIN cache \cup {u}
                   /\ cache'[u] = [data |-> f.data.v, timestamp |-> now]
                   /\ \A x \in DOMAIN cache \ {u} : cache'[x] = cache[x]
    /\ ~IsFetchStep => cache' = cache

\* C10: a call answers from the cache only when an entry for that URL is
\* younger than expiry, and then with the result of the latest successful
\* fetch of that URL; only a fetch answered with status OK writes the cache;
\* a failed fetch returns (None, error) and leaves the cache as it was.
C10_CacheDiscipline == [][CacheStep]_vars

\* a fetch has just failed for a URL whose cache entry had expired, and the
\* entry is still there, as old as before
C10_Witness ==
    /\ lastFetch.status \in { "FAILED", "EXC" }
    /\ lastFetch.data = NoneSeq
    /\ lastFetch.url \in DOMAIN cache
    /\ now - cache[lastFetch.url].timestamp >= Expiry
    /\ \E e \in Endpoints : fetched[e].src = "hit"

====
